---- MODULE Spec2Model ----
(***************************************************************************)
(* Connect 4 with a depth-limited minimax search with alpha-beta pruning   *)
(* (Connect4AiVsAi.py).  The board is a ROWS x COLUMNS grid, row 0 at the  *)
(* top.  Board objects live in a store (a sequence of grids) and are named *)
(* by their index, so that copy.deepcopy and the in-place make_move keep   *)
(* their meaning.                                                          *)
(***************************************************************************)
EXTENDS Integers, Sequences, FiniteSets, TLC

\* ------------------------------------------------------------ constants
EMPTY == 0
P1_PIECE == 1
P2_PIECE == 2
CONNECT == 4
ROWS == 6
COLUMNS == 7

\* math.inf: only compared with, and replaced by, integers of magnitude <= WIN
Inf == 1000000000
WIN == 1000000
\* Python's None in the column position of minimax's result
None == -1

Rows == 0..(ROWS - 1)
Cols == 0..(COLUMNS - 1)
Pieces == {EMPTY, P1_PIECE, P2_PIECE}

\* ------------------------------------------------------------ bounds
\* drops played on top of the opening position
MaxDrops == 1
\* largest max_depth handed to minimax
MaxDepth == 3
\* longest run of cells painted on a grid of the arbitrary-grid harness
MaxRun == 4
\* largest max_depth of a root call on a grid of stacks
MaxEval == 2
\* games main simulates (num_games)
MaxGames == 2
\* turns of one game when the search result is an input of the driver
MaxTurns == 8

\* ------------------------------------------------------------ board
init_board == [row \in Rows |-> [col \in Cols |-> EMPTY]]

\* make_move on the board object b of the store
make_move(store, b, player_piece, row, col) ==
    [store EXCEPT ![b][row][col] = player_piece]

valid_spot(board, row, col) == board[row][col] = EMPTY

RECURSIVE lowest_row_scan(_, _, _)
lowest_row_scan(board, col, row) ==
    IF row < 0 THEN -1
    ELSE IF board[row][col] = EMPTY THEN row
    ELSE lowest_row_scan(board, col, row - 1)

\* variant: the scan starts at row 0 and returns the first empty cell met
RECURSIVE lowest_row_scan_down(_, _, _)
lowest_row_scan_down(board, col, row) ==
    IF row >= ROWS THEN -1
    ELSE IF board[row][col] = EMPTY THEN row
    ELSE lowest_row_scan_down(board, col, row + 1)

lowest_row_from_top(board, col) == lowest_row_scan_down(board, col, 0)

lowest_row(board, col) == lowest_row_scan(board, col, ROWS - 1)

\* variant: the test is lowest_row(board, col) > 0
RECURSIVE valid_locations_scan_positive(_, _)
valid_locations_scan_positive(board, col) ==
    IF col >= COLUMNS THEN << >>
    ELSE IF lowest_row(board, col) > 0
         THEN <<col>> \o valid_locations_scan_positive(board, col + 1)
         ELSE valid_locations_scan_positive(board, col + 1)

\* variant: the test is lowest_row(board, col) >= -1
RECURSIVE valid_locations_scan_all(_, _)
valid_locations_scan_all(board, col) ==
    IF col >= COLUMNS THEN << >>
    ELSE IF lowest_row(board, col) >= -1
         THEN <<col>> \o valid_locations_scan_all(board, col + 1)
         ELSE valid_locations_scan_all(board, col + 1)

RECURSIVE valid_locations_scan(_, _)
valid_locations_scan(board, col) ==
    IF col >= COLUMNS THEN << >>
    ELSE IF lowest_row(board, col) > -1
         THEN <<col>> \o valid_locations_scan(board, col + 1)
         ELSE valid_locations_scan(board, col + 1)

get_valid_locations(board) == valid_locations_scan(board, 0)

\* variant: board_copy = board, the same object under a second name
deepcopy_alias(store, b) == <<store, b>>

\* copy.deepcopy(board): a new object holding the same cells
deepcopy(store, b) == <<Append(store, store[b]), Len(store) + 1>>

\* ------------------------------------------------------------ win detection
piece_of(player) == IF player = 1 THEN P2_PIECE ELSE P1_PIECE
opp_piece_of(player) == IF player = 1 THEN P1_PIECE ELSE P2_PIECE

\* playerCount after the inner loop over i, for the line from (row, col)
\* stepping (dr, dc)
playerCount(board, row, col, dr, dc, player_piece) ==
    Cardinality({i \in 0..(CONNECT - 1) :
                    board[row + i * dr][col + i * dc] = player_piece})

\* variant: the '/' loop starts one column late
check_win_short_diagonal(board, player) ==
    LET player_piece == piece_of(player) IN
    \/ \E row \in 0..(ROWS - 1), col \in 0..(COLUMNS - CONNECT) :
          playerCount(board, row, col, 0, 1, player_piece) = CONNECT
    \/ \E col \in 0..(COLUMNS - 1), row \in 0..(ROWS - CONNECT) :
          playerCount(board, row, col, 1, 0, player_piece) = CONNECT
    \/ \E row \in 0..(ROWS - CONNECT), col \in (COLUMNS - CONNECT + 1)..(COLUMNS - 1) :
          playerCount(board, row, col, 1, -1, player_piece) = CONNECT
    \/ \E row \in 0..(ROWS - CONNECT), col \in 0..(COLUMNS - CONNECT) :
          playerCount(board, row, col, 1, 1, player_piece) = CONNECT

check_win(board, player) ==
    LET player_piece == piece_of(player) IN
    \/ \E row \in 0..(ROWS - 1), col \in 0..(COLUMNS - CONNECT) :
          playerCount(board, row, col, 0, 1, player_piece) = CONNECT
    \/ \E col \in 0..(COLUMNS - 1), row \in 0..(ROWS - CONNECT) :
          playerCount(board, row, col, 1, 0, player_piece) = CONNECT
    \/ \E row \in 0..(ROWS - CONNECT), col \in (COLUMNS - CONNECT)..(COLUMNS - 1) :
          playerCount(board, row, col, 1, -1, player_piece) = CONNECT
    \/ \E row \in 0..(ROWS - CONNECT), col \in 0..(COLUMNS - CONNECT) :
          playerCount(board, row, col, 1, 1, player_piece) = CONNECT

\* variant: a full board without four in a row is not terminal
is_terminal_board_wins_only(board) ==
    check_win(board, 0) \/ check_win(board, 1)

is_terminal_board(board) ==
    \/ check_win(board, 0)
    \/ check_win(board, 1)
    \/ Len(get_valid_locations(board)) = 0

\* ------------------------------------------------------------ heuristic
count(window, x) == Cardinality({i \in 1..Len(window) : window[i] = x})

\* variant: the opponent's line of 2 is penalised whatever the other cells hold
score_window_any_two(window, player) ==
    LET player_piece == piece_of(player)
        opp_piece == opp_piece_of(player)
        n_own == count(window, player_piece)
        n_opp == count(window, opp_piece)
        n_empty == count(window, EMPTY)
        own == IF n_own = 4 THEN 100
               ELSE IF n_own = 3 /\ n_empty = 1 THEN 5
               ELSE IF n_own = 2 /\ n_empty = 2 THEN 2
               ELSE 0
        opp == IF n_opp = 3 /\ n_empty = 1 THEN -4
               ELSE IF n_opp = 2 THEN -1
               ELSE 0
    IN own + opp

\* variant: a lone piece in an empty window scores 1
score_window_lone_piece(window, player) ==
    LET player_piece == piece_of(player)
        opp_piece == opp_piece_of(player)
        n_own == count(window, player_piece)
        n_opp == count(window, opp_piece)
        n_empty == count(window, EMPTY)
        own == IF n_own = 4 THEN 100
               ELSE IF n_own = 3 /\ n_empty = 1 THEN 5
               ELSE IF n_own = 2 /\ n_empty = 2 THEN 2
               ELSE IF n_own = 1 /\ n_empty = 3 THEN 1
               ELSE 0
        opp == IF n_opp = 3 /\ n_empty = 1 THEN -4
               ELSE IF n_opp = 2 /\ n_empty = 2 THEN -1
               ELSE 0
    IN own + opp

\* variant: a line of 4 is scored like a won game
score_window_as_win(window, player) ==
    LET player_piece == piece_of(player)
        opp_piece == opp_piece_of(player)
        n_own == count(window, player_piece)
        n_opp == count(window, opp_piece)
        n_empty == count(window, EMPTY)
        own == IF n_own = 4 THEN WIN
               ELSE IF n_own = 3 /\ n_empty = 1 THEN 5
               ELSE IF n_own = 2 /\ n_empty = 2 THEN 2
               ELSE 0
        opp == IF n_opp = 3 /\ n_empty = 1 THEN -4
               ELSE IF n_opp = 2 /\ n_empty = 2 THEN -1
               ELSE 0
    IN own + opp

score_window(window, player) ==
    LET player_piece == piece_of(player)
        opp_piece == opp_piece_of(player)
        n_own == count(window, player_piece)
        n_opp == count(window, opp_piece)
        n_empty == count(window, EMPTY)
        own == IF n_own = 4 THEN 100
               ELSE IF n_own = 3 /\ n_empty = 1 THEN 5
               ELSE IF n_own = 2 /\ n_empty = 2 THEN 2
               ELSE 0
        opp == IF n_opp = 3 /\ n_empty = 1 THEN -4
               ELSE IF n_opp = 2 /\ n_empty = 2 THEN -1
               ELSE 0
    IN own + opp

RECURSIVE SumFirst(_, _)
SumFirst(f, n) == IF n = 0 THEN 0 ELSE f[n - 1] + SumFirst(f, n - 1)

\* The windows of the four loops of score_board, in loop order: each window
\* is the sequence of the cells <<row, col>> it reads.  The loop over a range
\* of nrow rows and ncol columns is numbered k = 0 .. nrow * ncol - 1.
horizontal_windows ==
    LET ncol == COLUMNS - CONNECT + 1
    IN [k \in 1..(ROWS * ncol) |->
           [i \in 1..CONNECT |-> <<(k - 1) \div ncol, ((k - 1) % ncol) + i - 1>>]]

\* variant: range(ROWS - CONNECT) for range(ROWS - CONNECT + 1)
vertical_windows_short ==
    LET nrow == ROWS - CONNECT
    IN [k \in 1..(COLUMNS * nrow) |->
           [i \in 1..CONNECT |-> <<((k - 1) % nrow) + i - 1, (k - 1) \div nrow>>]]

vertical_windows ==
    LET nrow == ROWS - CONNECT + 1
    IN [k \in 1..(COLUMNS * nrow) |->
           [i \in 1..CONNECT |-> <<((k - 1) % nrow) + i - 1, (k - 1) \div nrow>>]]

\* variant: board[row+i][col+i], the index of the other diagonal loop
rising_windows_as_falling ==
    LET nrow == ROWS - CONNECT + 1
        ncol == COLUMNS - CONNECT + 1
    IN [k \in 1..(nrow * ncol) |->
           [i \in 1..CONNECT |-> <<((k - 1) \div ncol) + i - 1, ((k - 1) % ncol) + i - 1>>]]

\* the loop commented "\ diagonal": board[row+CONNECT-1-i][col+i]
rising_windows ==
    LET nrow == ROWS - CONNECT + 1
        ncol == COLUMNS - CONNECT + 1
    IN [k \in 1..(nrow * ncol) |->
           [i \in 1..CONNECT |->
               <<((k - 1) \div ncol) + CONNECT - 1 - (i - 1), ((k - 1) % ncol) + i - 1>>]]

\* the loop commented "/ diagonal": board[row+i][col+i]
falling_windows ==
    LET nrow == ROWS - CONNECT + 1
        ncol == COLUMNS - CONNECT + 1
    IN [k \in 1..(nrow * ncol) |->
           [i \in 1..CONNECT |-> <<((k - 1) \div ncol) + i - 1, ((k - 1) % ncol) + i - 1>>]]

\* the window list handed to score_window: the values of the cells
window_at(board, cells) == [i \in 1..CONNECT |-> board[cells[i][1]][cells[i][2]]]

\* score += score_window(window, player) over the windows of one loop
loop_score(board, player, windows) ==
    SumFirst([k \in 0..(Len(windows) - 1) |->
                 score_window(window_at(board, windows[k + 1]), player)],
             Len(windows))

horizontal_score(board, player) == loop_score(board, player, horizontal_windows)
vertical_score(board, player) == loop_score(board, player, vertical_windows)
rising_score(board, player) == loop_score(board, player, rising_windows)
falling_score(board, player) == loop_score(board, player, falling_windows)

score_board(board, player) ==
    horizontal_score(board, player) + vertical_score(board, player)
        + rising_score(board, player) + falling_score(board, player)

\* ------------------------------------------------------------ search
max(a, b) == IF a >= b THEN a ELSE b
min(a, b) == IF a <= b THEN a ELSE b

\* random.choice(valid_locations), drawn before the loop.  The draw is never
\* read, only returned when no iteration assigns column, so it is carried as
\* the token Drawn and resolved by drawn_columns where a result is used: Drawn
\* stands for every element of valid_locations.
Drawn == -2
random_choice(valid_locations) == Drawn
drawn_columns(column, valid_locations) ==
    IF column = Drawn THEN {valid_locations[i] : i \in 1..Len(valid_locations)}
    ELSE {column}

\* variants: the loss and win values as initial values; >= for >; the min
\* branch's test turned round
initial_value_win(maxPlayer) == IF maxPlayer THEN -WIN ELSE WIN
improves_max_ge(new_score, value) == new_score >= value
prune_min_flipped(alpha, beta) == beta >= alpha

\* the initial value and the comparisons of the two loops
initial_value(maxPlayer) == IF maxPlayer THEN -Inf ELSE Inf
improves_max(new_score, value) == new_score > value
improves_min(new_score, value) == new_score < value
prune_max(alpha, beta) == alpha >= beta
prune_min(alpha, beta) == beta <= alpha

\* the value returned for a terminal board
terminal_value(board, player) ==
    IF check_win(board, player) THEN WIN
    ELSE IF check_win(board, (player + 1) % 2) THEN -WIN
    ELSE 0

\* One record per call of minimax, appended when the call returns: the
\* arguments, the cells of its board on entry (given) and on return (after),
\* the part of minimax that returned ("terminal", "depth": the return of
\* score_board, "loop"), the boards handed to its children with the scores
\* they returned, and the result.
call_record(depth, max_depth, maxPlayer, player, given, after, part, scanned, column, value) ==
    [depth |-> depth, max_depth |-> max_depth, maxPlayer |-> maxPlayer,
     player |-> player, given |-> given, after |-> after, part |-> part,
     scanned |-> scanned, column |-> column, value |-> value]

returns(st, b, depth, max_depth, maxPlayer, player, given, part, scanned, column, value) ==
    [column |-> column, value |-> value,
     st |-> [st EXCEPT !.log = Append(@,
                call_record(depth, max_depth, maxPlayer, player, given, st.store[b],
                            part, scanned, column, value))]]

\* variant: the depth limit is checked before the terminal check
branch_depth_first(board, depth, max_depth) ==
    IF depth = max_depth THEN "depth"
    ELSE IF is_terminal_board(board) THEN "terminal"
    ELSE "loop"

\* which of the three parts of minimax a call takes: the terminal check comes
\* first, the depth limit second
branch(board, depth, max_depth) ==
    IF is_terminal_board(board) THEN "terminal"
    ELSE IF depth = max_depth THEN "depth"
    ELSE "loop"

RECURSIVE minimax(_, _, _, _, _, _, _, _)
RECURSIVE search_loop(_, _)

\* The locals of one call of minimax are kept in two records.  f holds what
\* the loop leaves alone: b (the call's board object), depth, max_depth,
\* maxPlayer, player, valid_locations, and given, the cells of the board on
\* entry.  s holds what an iteration changes: st (store and log), alpha, beta,
\* value, column, k (the index in valid_locations of the next col) and
\* scanned, the children visited so far.

\* the loop body up to the recursive call: lowest_row, deepcopy, make_move
loop_move(f, s) ==
    LET col == f.valid_locations[s.k]
        row == lowest_row(s.st.store[f.b], col)
        piece == IF f.maxPlayer THEN piece_of(f.player) ELSE opp_piece_of(f.player)
        cp == deepcopy(s.st.store, f.b)
    IN [col |-> col, piece |-> piece, board_copy |-> cp[2],
        store |-> make_move(cp[1], cp[2], piece, row, col)]

\* the loop body after the recursive call returned child: the comparison, the
\* update of alpha or beta, the break
loop_update(f, s, m, child) ==
    LET new_score == child.value
        better == IF f.maxPlayer THEN improves_max(new_score, s.value)
                  ELSE improves_min(new_score, s.value)
        value1 == IF better THEN new_score ELSE s.value
        alpha1 == IF f.maxPlayer THEN max(s.alpha, value1) ELSE s.alpha
        beta1 == IF f.maxPlayer THEN s.beta ELSE min(s.beta, value1)
        stop == IF f.maxPlayer THEN prune_max(alpha1, beta1) ELSE prune_min(alpha1, beta1)
    IN [st |-> child.st, alpha |-> alpha1, beta |-> beta1, value |-> value1,
        column |-> IF better THEN m.col ELSE s.column,
        k |-> IF stop THEN Len(f.valid_locations) + 1 ELSE s.k + 1,
        scanned |-> Append(s.scanned, [col |-> m.col, piece |-> m.piece,
                                       child |-> m.store[m.board_copy],
                                       new_score |-> new_score])]

\* the recursive call on the copy, one level down, with the frame's alpha and
\* beta as they stand at this iteration
loop_recurse(f, s, m) ==
    loop_update(f, s, m,
                minimax([s.st EXCEPT !.store = m.store], m.board_copy, f.depth + 1,
                        f.max_depth, s.alpha, s.beta, ~f.maxPlayer, f.player))

\* The for loop over valid_locations from its k-th element on, in the max
\* branch (maxPlayer) or the min branch.
search_loop(f, s) ==
    IF s.k > Len(f.valid_locations)
    THEN returns(s.st, f.b, f.depth, f.max_depth, f.maxPlayer, f.player, f.given,
                 "loop", s.scanned, s.column, s.value)
    ELSE search_loop(f, loop_recurse(f, s, loop_move(f, s)))

\* st = [store, log]; b names the board object in the store; the result is
\* [column, value, st]
minimax(st, b, depth, max_depth, alpha, beta, maxPlayer, player) ==
    LET part == branch(st.store[b], depth, max_depth) IN
    IF part = "terminal"
    THEN returns(st, b, depth, max_depth, maxPlayer, player, st.store[b], part,
                 << >>, None, terminal_value(st.store[b], player))
    ELSE IF part = "depth"
    THEN returns(st, b, depth, max_depth, maxPlayer, player, st.store[b], part,
                 << >>, None, score_board(st.store[b], player))
    ELSE search_loop(
            [b |-> b, depth |-> depth, max_depth |-> max_depth, maxPlayer |-> maxPlayer,
             player |-> player, given |-> st.store[b],
             valid_locations |-> get_valid_locations(st.store[b])],
            [st |-> st, alpha |-> alpha, beta |-> beta,
             value |-> initial_value(maxPlayer),
             column |-> random_choice(get_valid_locations(st.store[b])),
             k |-> 1, scanned |-> << >>])

\* ------------------------------------------------------------ state
VARIABLES
    board,      \* main's board: the cells of the game board object
    turn,       \* main's turn: the player to move, 0 (P1) or 1 (P2)
    drops,      \* pieces placed since the opening position
    window,     \* the window handed to score_window
    ret,        \* what the last call made by a step returned
    calls,      \* the records of the last root call of minimax
    p1_depth,   \* main's p1_depth
    wins,       \* main's wins
    losses,     \* main's losses
    draws,      \* main's draws
    game_over,  \* main's game_over
    pc,         \* where main stands: "outer" (line 365), "game" (line 377),
                \* "done" (after the outer loop), "raised" (left by an exception)
    errors,     \* lines "ERROR" printed in the current game
    turns,      \* passes of the inner loop in the current game
    fours       \* calls of score_board, in the searches main has made, on a
                \* board with a window of four pieces of the reference side

main_vars == <<p1_depth, wins, losses, draws, game_over, pc, errors, turns, fours>>
vars == <<board, turn, drops, window, ret, calls, main_vars>>

\* main is not running
NoMain ==
    /\ p1_depth = 0
    /\ wins = 0
    /\ losses = 0
    /\ draws = 0
    /\ game_over = FALSE
    /\ pc = "none"
    /\ errors = 0
    /\ turns = 0
    /\ fours = 0

NoRet == [fn |-> "none"]

\* the position after the given columns are played in turn, t moving first
RECURSIVE play(_, _, _)
play(b, t, moves) ==
    IF moves = << >> THEN b
    ELSE play(make_move(<<b>>, 1, piece_of(t), lowest_row(b, Head(moves)), Head(moves))[1],
              (t + 1) % 2, Tail(moves))

\* a game of 42 moves that fills the board without four in a row
DrawnGame ==
    <<1, 0, 0, 0, 0, 0, 0, 2, 1, 1, 4, 1, 4, 1, 1, 2, 2, 3, 2, 4, 2,
      2, 3, 4, 3, 4, 4, 5, 5, 3, 5, 3, 3, 6, 5, 6, 6, 6, 6, 5, 6, 5>>

\* positions a game is continued from: the start; the side to move wins at
\* column 3; the side to move faces an open three; one cell left on a board
\* without four in a row
Openings ==
    { << >>,
      <<0, 0, 1, 1, 2, 2>>,
      <<3, 3, 4, 4, 2>>,
      SubSeq(DrawnGame, 1, Len(DrawnGame) - 1) }

\* ------------------------------------------------------------ games
Init ==
    /\ turn \in {0, 1}
    /\ \E o \in Openings : board = play(init_board, (turn + Len(o)) % 2, o)
    /\ drops = 0
    /\ window = << >>
    /\ ret = NoRet
    /\ calls = << >>
    /\ NoMain

\* one move of a game by a player that plays any open column: lowest_row and
\* make_move on the game board, then the turn switch
Drop(col) ==
    /\ drops < MaxDrops
    /\ ~is_terminal_board(board)
    /\ lowest_row(board, col) > -1
    /\ board' = make_move(<<board>>, 1, piece_of(turn), lowest_row(board, col), col)[1]
    /\ turn' = (turn + 1) % 2
    /\ drops' = drops + 1
    /\ ret' = NoRet
    /\ calls' = << >>
    /\ UNCHANGED <<window, main_vars>>

\* a root call as main makes it, on the game board object
Search(max_depth, player) ==
    /\ ret = NoRet
    /\ \E r \in {minimax([store |-> <<board>>, log |-> << >>], 1, 0, max_depth,
                         -Inf, Inf, TRUE, player)} :
          /\ board' = r.st.store[1]
          /\ \E column \in drawn_columns(r.column, get_valid_locations(board)) :
                ret' = [fn |-> "minimax", max_depth |-> max_depth, player |-> player,
                        column |-> column, value |-> r.value]
          /\ calls' = r.st.log
    /\ UNCHANGED <<turn, drops, window, main_vars>>

Next ==
    \/ \E col \in Cols : Drop(col)
    \/ \E max_depth \in 1..MaxDepth, player \in {0, 1} : Search(max_depth, player)

Spec == Init /\ [][Next]_vars

\* ------------------------------------------------------------ grids
\* Arbitrary grids, gravity or not: a grid filled with one value, a run of
\* cells of another value painted on it, one cell of the run left out or
\* not.  Cells are numbered row by row; a run steps by 1 (along a row),
\* COLUMNS (down a column), COLUMNS + 1 or COLUMNS - 1 (the diagonals) and may
\* run over the end of a row, which gives runs that are no line of the board.
NCells == ROWS * COLUMNS
MinRun == MaxRun - 1
Strides == {1, COLUMNS - 1, COLUMNS, COLUMNS + 1}

painted(fill, start, stride, len, gap, v) ==
    LET run == {start + i * stride : i \in (0..(len - 1)) \ {gap}}
    IN [row \in Rows |-> [col \in Cols |->
            IF (row * COLUMNS + col) \in run THEN v ELSE fill]]

Grids ==
    { painted(fill, start, stride, len, gap, v) :
        fill \in Pieces, v \in Pieces, start \in 0..(NCells - 1),
        stride \in Strides, len \in MinRun..MaxRun, gap \in -1..(MaxRun - 1) }

InitGrid ==
    /\ board \in Grids
    /\ turn = 0
    /\ drops = 0
    /\ window = << >>
    /\ ret = NoRet
    /\ calls = << >>
    /\ NoMain

CallCheckWin(player) ==
    /\ ret = NoRet
    /\ ret' = [fn |-> "check_win", player |-> player, value |-> check_win(board, player)]
    /\ UNCHANGED <<board, turn, drops, window, calls, main_vars>>

CallLowestRow(col) ==
    /\ ret = NoRet
    /\ ret' = [fn |-> "lowest_row", col |-> col, value |-> lowest_row(board, col)]
    /\ UNCHANGED <<board, turn, drops, window, calls, main_vars>>

CallGetValidLocations ==
    /\ ret = NoRet
    /\ ret' = [fn |-> "get_valid_locations", value |-> get_valid_locations(board)]
    /\ UNCHANGED <<board, turn, drops, window, calls, main_vars>>

NextGrid ==
    \/ \E player \in {0, 1} : CallCheckWin(player)
    \/ \E col \in Cols : CallLowestRow(col)
    \/ CallGetValidLocations

SpecGrid == InitGrid /\ [][NextGrid]_vars

\* ------------------------------------------------------------ windows
InitWindow ==
    /\ board = init_board
    /\ turn = 0
    /\ drops = 0
    /\ window \in [1..CONNECT -> Pieces]
    /\ ret = NoRet
    /\ calls = << >>
    /\ NoMain

CallScoreWindow(player) ==
    /\ ret = NoRet
    /\ ret' = [fn |-> "score_window", player |-> player,
               value |-> score_window(window, player)]
    /\ UNCHANGED <<board, turn, drops, window, calls, main_vars>>

NextWindow == \E player \in {0, 1} : CallScoreWindow(player)

SpecWindow == InitWindow /\ [][NextWindow]_vars

\* ------------------------------------------------------------ scores
\* score_board on an arbitrary grid; the call is recorded with the windows its
\* four loops handed to score_window
CallScoreBoard(player) ==
    /\ ret = NoRet
    /\ ret' = [fn |-> "score_board", player |-> player,
               value |-> score_board(board, player),
               horizontal |-> horizontal_windows, vertical |-> vertical_windows,
               rising |-> rising_windows, falling |-> falling_windows]
    /\ UNCHANGED <<board, turn, drops, window, calls, main_vars>>

\* every column of the grid is a stack resting on the bottom row
stacked(grid) ==
    \A col \in Cols : \A row \in Rows :
        row < lowest_row(grid, col) => grid[row][col] = EMPTY

\* a root call of minimax on a grid of stacks, the depth limit 0 included
Evaluate(max_depth, player) ==
    /\ ret = NoRet
    /\ stacked(board)
    /\ \E r \in {minimax([store |-> <<board>>, log |-> << >>], 1, 0, max_depth,
                         -Inf, Inf, TRUE, player)} :
          /\ board' = r.st.store[1]
          /\ \E column \in drawn_columns(r.column, get_valid_locations(board)) :
                ret' = [fn |-> "minimax", max_depth |-> max_depth, player |-> player,
                        column |-> column, value |-> r.value]
          /\ calls' = r.st.log
    /\ UNCHANGED <<turn, drops, window, main_vars>>

NextScore ==
    \/ \E player \in {0, 1} : CallScoreBoard(player)
    \/ \E max_depth \in 0..MaxEval, player \in {0, 1} : Evaluate(max_depth, player)

SpecScore == InitGrid /\ [][NextScore]_vars

\* ------------------------------------------------------------ main
\* main's setting of p1_depth; games are also played with the shallower
\* settings 1..MaxDepth
P1_DEPTH == 5
p2_depth == 1
p2_minimax == TRUE
\* the number of games to simulate: 100 in main, bounded here
num_games == MaxGames

\* variant: p2_depth = 0
player_depth_zero(player, depth1) == IF player = 1 THEN 0 ELSE depth1

\* max_depth = p1_depth; if player == 1: max_depth = p2_depth
player_depth(player, depth1) == IF player = 1 THEN p2_depth ELSE depth1

\* variant: check_win(board, p2) is not looked at
game_result_p1_only(after) ==
    IF check_win(after, 0) THEN "win"
    ELSE IF Len(get_valid_locations(after)) = 0 THEN "draw"
    ELSE "none"

\* the if / elif chain that ends a game
game_result(after) ==
    IF check_win(after, 0) THEN "win"
    ELSE IF check_win(after, 1) THEN "loss"
    ELSE IF Len(get_valid_locations(after)) = 0 THEN "draw"
    ELSE "none"

\* variant: the turn is not switched
next_turn_same(t) == t

\* turn += 1; turn %= 2
next_turn(t) == (t + 1) % 2

InitMain ==
    /\ board = init_board
    /\ turn = 0
    /\ drops = 0
    /\ window = << >>
    /\ ret = NoRet
    /\ calls = << >>
    /\ p1_depth \in (1..MaxDepth) \cup {P1_DEPTH}
    /\ wins = 0
    /\ losses = 0
    /\ draws = 0
    /\ game_over = FALSE
    /\ pc = "outer"
    /\ errors = 0
    /\ turns = 0
    /\ fours = 0

\* the outer loop is entered: a random starter, a new board
NewGame ==
    /\ pc = "outer"
    /\ wins + losses + draws # num_games
    /\ turn' \in {0, 1}
    /\ game_over' = FALSE
    /\ board' = init_board
    /\ pc' = "game"
    /\ errors' = 0
    /\ turns' = 0
    /\ ret' = NoRet
    /\ calls' = << >>
    /\ UNCHANGED <<drops, window, p1_depth, wins, losses, draws, fours>>

\* the end of a pass of the inner loop: the tally and the turn switch
end_of_turn(after, error) ==
    /\ board' = after
    /\ errors' = IF error THEN errors + 1 ELSE errors
    /\ \E result \in {game_result(after)} :
          /\ wins' = IF result = "win" THEN wins + 1 ELSE wins
          /\ losses' = IF result = "loss" THEN losses + 1 ELSE losses
          /\ draws' = IF result = "draw" THEN draws + 1 ELSE draws
          /\ game_over' = IF result # "none" THEN TRUE ELSE game_over
    /\ turn' = next_turn(turn)
    /\ turns' = turns + 1
    /\ UNCHANGED <<drops, window, p1_depth, pc>>

\* row = lowest_row(board, col); make_move if row > -1, else print("ERROR")
checked_move(col, b) ==
    \E row \in {lowest_row(b, col)} :
        IF row > -1
        THEN end_of_turn(make_move(<<b>>, 1, piece_of(turn), row, col)[1], FALSE)
        ELSE end_of_turn(b, TRUE)

\* the windows score_board hands to score_window
all_windows == horizontal_windows \o vertical_windows \o rising_windows \o falling_windows

\* score_window takes its branch of four own pieces for a window of the board
scores_four(b, player) ==
    \E k \in 1..Len(all_windows) :
        \A i \in 1..CONNECT : b[all_windows[k][i][1]][all_windows[k][i][2]] = piece_of(player)

\* the calls of a search that returned score_board of such a board
scored_fours(log) ==
    Cardinality({i \in 1..Len(log) :
                    log[i].part = "depth" /\ scores_four(log[i].given, log[i].player)})

\* the branch of a player that moves by minimax; lowest_row(board, None)
\* raises and main is left
SearchTurn ==
    \E r \in {minimax([store |-> <<board>>, log |-> << >>], 1, 0,
                      player_depth(turn, p1_depth), -Inf, Inf, TRUE, turn)} :
        \E col \in drawn_columns(r.column, get_valid_locations(board)) :
            /\ ret' = [fn |-> "minimax", max_depth |-> player_depth(turn, p1_depth),
                       player |-> turn, column |-> col, value |-> r.value]
            /\ calls' = r.st.log
            /\ fours' = fours + scored_fours(r.st.log)
            /\ IF col = None
               THEN /\ pc' = "raised"
                    /\ board' = r.st.store[1]
                    /\ UNCHANGED <<turn, drops, window, p1_depth, wins, losses, draws,
                                   game_over, errors, turns>>
               ELSE checked_move(col, r.st.store[1])

\* the branch of a P2 that moves at random (p2_minimax False)
RandomTurn ==
    \E k \in 1..Len(get_valid_locations(board)) :
        \E col \in {get_valid_locations(board)[k]} :
            /\ ret' = NoRet
            /\ calls' = << >>
            /\ fours' = fours
            /\ end_of_turn(make_move(<<board>>, 1, piece_of(turn),
                                     lowest_row(board, col), col)[1], FALSE)

\* one pass of the inner loop; a game is not followed beyond ROWS * COLUMNS
\* + 1 passes
Turn ==
    /\ pc = "game"
    /\ ~game_over
    /\ turns <= ROWS * COLUMNS
    /\ IF turn = 0 \/ p2_minimax THEN SearchTurn ELSE RandomTurn

\* the inner loop is left
EndGame ==
    /\ pc = "game"
    /\ game_over
    /\ pc' = "outer"
    /\ UNCHANGED <<board, turn, drops, window, ret, calls, p1_depth, wins, losses,
                   draws, game_over, errors, turns, fours>>

\* the outer loop is left
Finish ==
    /\ pc = "outer"
    /\ wins + losses + draws = num_games
    /\ pc' = "done"
    /\ UNCHANGED <<board, turn, drops, window, ret, calls, p1_depth, wins, losses,
                   draws, game_over, errors, turns, fours>>

NextMain ==
    \/ NewGame
    \/ Turn
    \/ EndGame
    \/ Finish

SpecMain == InitMain /\ [][NextMain]_vars

\* ------------------------------------------------------------ driver
\* main's loops with the result of the search as an input: the columns a
\* search is taken to return, full or not
ReturnedCols == {0, 3}

ReturnedTurn(col) ==
    /\ pc = "game"
    /\ ~game_over
    /\ turns < MaxTurns
    /\ ret' = [fn |-> "returned", column |-> col]
    /\ calls' = << >>
    /\ fours' = fours
    /\ checked_move(col, board)

NextDriver ==
    \/ NewGame
    \/ \E col \in ReturnedCols : ReturnedTurn(col)
    \/ EndGame
    \/ Finish

SpecDriver == InitMain /\ [][NextDriver]_vars

\* ------------------------------------------------------------ reference notions
SetMax(S) == CHOOSE x \in S : \A y \in S : y <= x
SetMin(S) == CHOOSE x \in S : \A y \in S : x <= y

SidePiece(side) == side + 1
Steps == {<<0, 1>>, <<1, 0>>, <<1, 1>>, <<1, -1>>}

\* the 4-cell lines of the board, as sets of cells
Lines ==
    { L \in { {<<r + i * d[1], c + i * d[2]>> : i \in 0..(CONNECT - 1)} :
                 r \in Rows, c \in Cols, d \in Steps } :
        L \subseteq Rows \X Cols }

FourInLine(b, piece) == \E L \in Lines : \A cell \in L : b[cell[1]][cell[2]] = piece
OpenCols(b) == {c \in Cols : \E r \in Rows : b[r][c] = EMPTY}
Terminal(b) == FourInLine(b, P1_PIECE) \/ FourInLine(b, P2_PIECE) \/ OpenCols(b) = {}
TerminalValue(b, side) ==
    IF FourInLine(b, SidePiece(side)) THEN WIN
    ELSE IF FourInLine(b, SidePiece(1 - side)) THEN -WIN
    ELSE 0

\* b with one more piece resting in column c
Placed(b, c, piece) ==
    [b EXCEPT ![SetMax({r \in Rows : b[r][c] = EMPTY})][c] = piece]

Gravity(b) ==
    \A c \in Cols : \A r \in 0..(ROWS - 2) : b[r][c] # EMPTY => b[r + 1][c] # EMPTY

\* minimax without pruning: every open column in ascending order, the first
\* column with the extremal value, the terminal values and the heuristic of
\* the search; the result is <<column, value>>
RECURSIVE Exhaustive(_, _, _, _, _)
Exhaustive(b, depth, max_depth, maximizing, side) ==
    IF Terminal(b) THEN <<None, TerminalValue(b, side)>>
    ELSE IF depth = max_depth THEN <<None, score_board(b, side)>>
    ELSE
        LET mover == IF maximizing THEN SidePiece(side) ELSE SidePiece(1 - side)
            val == {<<c, Exhaustive(Placed(b, c, mover), depth + 1, max_depth,
                                    ~maximizing, side)[2]>> : c \in OpenCols(b)}
            best == IF maximizing THEN SetMax({cv[2] : cv \in val})
                    ELSE SetMin({cv[2] : cv \in val})
        IN <<SetMin({cv[1] : cv \in {x \in val : x[2] = best}}), best>>

\* the columns where a drop of the side completes four in a row
WinningCols(b, side) ==
    {c \in OpenCols(b) : FourInLine(Placed(b, c, SidePiece(side)), SidePiece(side))}

\* the score table of the heuristic, by the numbers of own, opponent and empty cells
Number(w, x) == Cardinality({i \in DOMAIN w : w[i] = x})
WindowTable(w, side) ==
    LET own == Number(w, SidePiece(side))
        opp == Number(w, SidePiece(1 - side))
        free == Number(w, EMPTY)
    IN CASE own = 4 -> 100
         [] own = 3 /\ free = 1 -> 5
         [] own = 2 /\ free = 2 -> 2
         [] opp = 3 /\ free = 1 -> -4
         [] opp = 2 /\ free = 2 -> -1
         [] OTHER -> 0

Records == {calls[i] : i \in 1..Len(calls)}
Searched == ret.fn = "minimax"
Root == calls[Len(calls)]
\* a call that left its loop before the last open column
Pruned(rec) == rec.scanned # << >> /\ Len(rec.scanned) < Cardinality(OpenCols(rec.given))

\* ------------------------------------------------------------ claims

\* C1: a root call minimax(board, 0, maxDepth, -inf, +inf, True, side)
\* returns the column and the value of the unpruned exhaustive minimax to the
\* same depth, for every board reached by legal alternating play, either
\* reference side and every maxDepth up to MaxDepth.
AlphaBetaEquivalence ==
    Searched =>
        <<ret.column, ret.value>> = Exhaustive(board, 0, ret.max_depth, TRUE, ret.player)

\* a search to depth 2 or more in which a call below the root was cut short
AlphaBetaPruned ==
    /\ Searched
    /\ ret.max_depth >= 2
    /\ ret.column \in Cols
    /\ \E rec \in Records : rec.depth >= 1 /\ Pruned(rec)
    /\ <<ret.column, ret.value>> = Exhaustive(board, 0, ret.max_depth, TRUE, ret.player)

\* C2: on a non-terminal board where some drop of the reference side
\* completes four in a row, a root call with maxDepth >= 1 returns a value
\* >= 1,000,000, and with maxDepth = 1 it returns the lowest such column.
WinValueDominance ==
    (Searched /\ ~Terminal(board) /\ WinningCols(board, ret.player) # {}) =>
        /\ ret.value >= WIN
        /\ ret.max_depth = 1 => ret.column = SetMin(WinningCols(board, ret.player))

\* three reference pieces at row 5 columns 0-2, row 5 column 3 empty, depth 1:
\* column 3 is returned with the win value
WinAtColumnThree ==
    /\ Searched
    /\ ret.max_depth = 1
    /\ \A c \in 0..2 : board[ROWS - 1][c] = SidePiece(ret.player)
    /\ board[ROWS - 1][3] = EMPTY
    /\ ~Terminal(board)
    /\ ret.column = 3
    /\ ret.value >= WIN

\* C3: every call of minimax on a terminal board, at any depth, the depth
\* limit included, returns column none and +1,000,000 if the reference side
\* has four in a row, -1,000,000 if the other side has, 0 otherwise.
TerminalValues ==
    \A rec \in Records :
        Terminal(rec.given) =>
            rec.column = None /\ rec.value = TerminalValue(rec.given, rec.player)

\* a win found exactly at the depth limit, on a board whose heuristic value
\* is not the win value
WinAtDepthLimit ==
    \E rec \in Records :
        /\ rec.depth = rec.max_depth
        /\ FourInLine(rec.given, SidePiece(rec.player))
        /\ rec.value = WIN
        /\ score_board(rec.given, rec.player) # WIN

\* C4: after any sequence of legal moves from the empty board no column has
\* an empty cell below an occupied one; this holds for the game board and for
\* every board built inside minimax.
GravityInvariant ==
    /\ Gravity(board)
    /\ \A rec \in Records :
          /\ Gravity(rec.given)
          /\ \A k \in 1..Len(rec.scanned) : Gravity(rec.scanned[k].child)

\* a move was played on the opening position and a search then stacked a
\* piece on another inside a copy
GravityStacked ==
    /\ drops > 0
    /\ \E rec \in Records : \E k \in 1..Len(rec.scanned) :
          \E c \in Cols : rec.scanned[k].child[ROWS - 2][c] # EMPTY
    /\ \A rec \in Records : Gravity(rec.given)

\* C5: check_win(board, side) is true exactly when the board holds four cells
\* of that side's piece along a horizontal, vertical or diagonal line.
WinDetection ==
    ret.fn = "check_win" =>
        (ret.value <=> FourInLine(board, SidePiece(ret.player)))

\* the '/' diagonal that ends in the top right corner is found
WinInCorner ==
    /\ ret.fn = "check_win"
    /\ ret.value
    /\ \A i \in 0..(CONNECT - 1) : board[i][COLUMNS - 1 - i] = SidePiece(ret.player)
    /\ \A r \in Rows, c \in Cols : r + c # COLUMNS - 1 => board[r][c] = EMPTY

\* C6: score_window returns +100 for 4 own, +5 for 3 own + 1 empty, +2 for
\* 2 own + 2 empty, -4 for 3 opponent + 1 empty, -1 for 2 opponent + 2 empty
\* and 0 for every other window; never a bonus and a penalty together.
WindowScoreTable ==
    ret.fn = "score_window" =>
        /\ ret.value = WindowTable(window, ret.player)
        /\ ret.value \in {100, 5, 2, 0, -1, -4}

\* a window of three opponent pieces and one empty cell was scored
WindowPenalised ==
    /\ ret.fn = "score_window"
    /\ Number(window, SidePiece(1 - ret.player)) = 3
    /\ Number(window, EMPTY) = 1
    /\ ret.value = -4

\* C7: lowest_row(board, col) is the largest row index whose cell is EMPTY,
\* or -1 when the column has none; get_valid_locations(board) is the
\* ascending sequence of exactly the columns with an EMPTY cell, and it is
\* empty exactly when the board is full.
LegalMoveEnumeration ==
    /\ ret.fn = "lowest_row" =>
          LET free == {r \in Rows : board[r][ret.col] = EMPTY}
          IN ret.value = IF free = {} THEN -1 ELSE SetMax(free)
    /\ ret.fn = "get_valid_locations" =>
          /\ {ret.value[i] : i \in 1..Len(ret.value)} = OpenCols(board)
          /\ \A i \in 1..Len(ret.value) : \A j \in 1..Len(ret.value) :
                i < j => ret.value[i] < ret.value[j]
          /\ \A c \in Cols :
                lowest_row(board, c) # -1 <=> \E i \in 1..Len(ret.value) : ret.value[i] = c
          /\ ret.value = << >> <=> \A r \in Rows, c \in Cols : board[r][c] # EMPTY

\* a column holding 6 pieces is left out while an open column is listed
FullColumnExcluded ==
    /\ ret.fn = "get_valid_locations"
    /\ ret.value # << >>
    /\ \E c \in Cols :
          /\ \A r \in Rows : board[r][c] # EMPTY
          /\ \A i \in 1..Len(ret.value) : ret.value[i] # c
          /\ lowest_row(board, c) = -1

\* C8: in every call on a non-terminal board with depth < maxDepth the
\* returned column is the lowest-indexed scanned column whose child value
\* equals the returned value, never the column drawn before the loop, and the
\* columns are scanned in ascending order; the root's result is that pair.
TieBreakDeterminism ==
    /\ \A rec \in Records :
          (~Terminal(rec.given) /\ rec.depth < rec.max_depth) =>
              /\ rec.scanned # << >>
              /\ rec.column # Drawn
              /\ \A j \in 1..Len(rec.scanned) : \A k \in 1..Len(rec.scanned) :
                    j < k => rec.scanned[j].col < rec.scanned[k].col
              /\ \E k \in 1..Len(rec.scanned) :
                    /\ rec.scanned[k].col = rec.column
                    /\ rec.scanned[k].new_score = rec.value
                    /\ \A j \in 1..(k - 1) : rec.scanned[j].new_score # rec.value
    /\ Searched => ret.column = Root.column /\ ret.value = Root.value

\* every move of the root loses at once, so every column ties and column 0,
\* the first scanned, is returned
TieOfAllColumns ==
    /\ Searched
    /\ ~Terminal(board)
    /\ Len(Root.scanned) = COLUMNS
    /\ \A k \in 1..COLUMNS : Root.scanned[k].new_score = -WIN
    /\ ret.column = 0
    /\ ret.value = -WIN

\* C9: a call of minimax leaves the board it was given as it was; every
\* child gets the parent's board plus exactly its own piece; the game board
\* is the same after the search as before.
SearchLeavesBoard ==
    /\ \A rec \in Records :
          /\ rec.after = rec.given
          /\ \A k \in 1..Len(rec.scanned) :
                /\ rec.scanned[k].piece =
                      (IF rec.maxPlayer THEN SidePiece(rec.player)
                       ELSE SidePiece(1 - rec.player))
                /\ rec.scanned[k].child =
                      Placed(rec.given, rec.scanned[k].col, rec.scanned[k].piece)
    /\ Searched => Root.given = board /\ Root.after = board

\* a search with a fully scanned frame and a pruned one, after a move
SearchedWithSiblings ==
    /\ Searched
    /\ drops > 0
    /\ Root.after = board
    /\ \E rec \in Records : Pruned(rec)
    /\ \E rec \in Records : Len(rec.scanned) = COLUMNS

\* C10 as stated: minimax returns column none only when its board has no
\* open column, and otherwise a member of get_valid_locations(board).
NoneOnlyWithoutMoves ==
    \A rec \in Records :
        /\ rec.column = None => OpenCols(rec.given) = {}
        /\ OpenCols(rec.given) # {} => rec.column \in OpenCols(rec.given)

\* C10 amended: minimax returns column none exactly when its board is
\* terminal (four in a row for a side, or no open column) or depth ==
\* max_depth; in every other call the column is an open column of its board.
NoneAtTerminalOrDepthLimit ==
    /\ \A rec \in Records :
          IF Terminal(rec.given) \/ rec.depth = rec.max_depth
          THEN rec.column = None
          ELSE \/ rec.column \in OpenCols(rec.given)
               \/ rec.column = Drawn /\ OpenCols(rec.given) # {}
    /\ Searched =>
          IF Terminal(board) THEN ret.column = None
          ELSE ret.column \in OpenCols(board)

\* a leaf at the depth limit with open columns returned none, and the root
\* returned an open column
NoneAtOpenLeaf ==
    /\ Searched
    /\ ret.column \in OpenCols(board)
    /\ \E rec \in Records :
          /\ rec.depth = rec.max_depth
          /\ ~Terminal(rec.given)
          /\ rec.column = None
          /\ OpenCols(rec.given) # {}

\* the windows of a recorded call of score_board, the four loops in turn
ScoredWindows == ret.horizontal \o ret.vertical \o ret.rising \o ret.falling
Scored == ret.fn = "score_board"

\* C11 as stated: score_board evaluates ROWS x (COLUMNS-3) horizontal,
\* (ROWS-3) x COLUMNS vertical and (ROWS-3) x (COLUMNS-3) windows per
\* diagonal direction, which for the 6x7 board is 24+28+20+20 = 92 windows.
WindowCount92 ==
    Scored =>
        /\ Len(ret.horizontal) = ROWS * (COLUMNS - 3) /\ Len(ret.horizontal) = 24
        /\ Len(ret.vertical) = (ROWS - 3) * COLUMNS /\ Len(ret.vertical) = 28
        /\ Len(ret.rising) = (ROWS - 3) * (COLUMNS - 3) /\ Len(ret.rising) = 20
        /\ Len(ret.falling) = (ROWS - 3) * (COLUMNS - 3) /\ Len(ret.falling) = 20
        /\ Len(ScoredWindows) = 92

\* C11 amended: score_board evaluates ROWS x (COLUMNS-3) horizontal,
\* (ROWS-3) x COLUMNS vertical and (ROWS-3) x (COLUMNS-3) windows per
\* diagonal direction, which for the 6x7 board is 24+21+12+12 = 69 windows.
WindowCount69 ==
    Scored =>
        /\ Len(ret.horizontal) = ROWS * (COLUMNS - 3) /\ Len(ret.horizontal) = 24
        /\ Len(ret.vertical) = (ROWS - 3) * COLUMNS /\ Len(ret.vertical) = 21
        /\ Len(ret.rising) = (ROWS - 3) * (COLUMNS - 3) /\ Len(ret.rising) = 12
        /\ Len(ret.falling) = (ROWS - 3) * (COLUMNS - 3) /\ Len(ret.falling) = 12
        /\ Len(ScoredWindows) = 69

\* score_board returned from a grid with pieces, having read 21 vertical
\* windows, the top one of column 0 (rows 0..3) and the bottom one of
\* column 6 (rows 2..5) among them
WindowsCounted ==
    /\ Scored
    /\ board # init_board
    /\ Len(ret.vertical) = 21
    /\ \E k \in 1..Len(ret.vertical) : ret.vertical[k] = <<<<0, 0>>, <<1, 0>>, <<2, 0>>, <<3, 0>>>>
    /\ \E k \in 1..Len(ret.vertical) : ret.vertical[k] = <<<<2, 6>>, <<3, 6>>, <<4, 6>>, <<5, 6>>>>

\* the sum of the score table over every 4-cell line of the board
LineSum(b, side) ==
    LET scored == {<<L, WindowTable([cell \in L |-> b[cell[1]][cell[2]]], side)>> : L \in Lines}
        T(v) == Cardinality({x \in scored : x[2] = v})
    IN 100 * T(100) + 5 * T(5) + 2 * T(2) - T(-1) - 4 * T(-4)

CellsOf(cells) == {cells[i] : i \in 1..Len(cells)}

\* C12: score_board(board, side) is the sum of score_window(w, side) over
\* every straight 4-cell window w of the board (horizontal, vertical and both
\* diagonals), each window counted exactly once; on the empty board it is 0.
BoardScoreReference ==
    Scored =>
        /\ ret.value = LineSum(board, ret.player)
        /\ {CellsOf(ScoredWindows[k]) : k \in 1..Len(ScoredWindows)} = Lines
        /\ Len(ScoredWindows) = Cardinality(Lines)
        /\ board = init_board => ret.value = 0

\* score_board returned from a grid whose only pieces with the score table's
\* weight lie on a diagonal rising to the right
RisingRunScored ==
    /\ Scored
    /\ ret.value # 0
    /\ \E k \in 1..Len(ret.rising) :
          /\ \A i \in 1..CONNECT :
                board[ret.rising[k][i][1]][ret.rising[k][i][2]] = SidePiece(ret.player)
          /\ ret.rising[k][1][1] = ret.rising[k][CONNECT][1] + CONNECT - 1
    /\ \A k \in 1..Len(ret.falling) :
          \E i \in 1..CONNECT :
                board[ret.falling[k][i][1]][ret.falling[k][i][2]] # SidePiece(ret.player)

\* C15: for every board and side -1,000,000 < score_board(board, side) <
\* 1,000,000, so the heuristic value of a non-terminal position is never
\* taken for a win or a loss; every value minimax returns lies in
\* [-1,000,000, 1,000,000].
HeuristicBelowWin ==
    /\ Scored => -WIN < ret.value /\ ret.value < WIN
    /\ Searched =>
          /\ -WIN <= ret.value /\ ret.value <= WIN
          /\ \A rec \in Records :
                /\ -WIN <= rec.value /\ rec.value <= WIN
                /\ rec.part = "depth" => -WIN < rec.value /\ rec.value < WIN
                /\ rec.part = "depth" => rec.value = score_board(rec.given, rec.player)

\* score_board returned for a side with four in a row on the grid: a
\* window of 100 in the sum, the value still below 1,000,000
HeuristicOfFourInRow ==
    /\ Scored
    /\ FourInLine(board, SidePiece(ret.player))
    /\ ret.value >= 100
    /\ ret.value < WIN

\* C14: in every call tree of minimax, score_board is invoked only on boards
\* on which neither side has four in a row and at least one column is open;
\* the terminal check runs before the depth-limit check, so a terminal board
\* at depth == max_depth returns through the terminal part.
HeuristicOnlyOnOpenGames ==
    \A rec \in Records :
        /\ rec.part = "depth" =>
              /\ ~FourInLine(rec.given, P1_PIECE)
              /\ ~FourInLine(rec.given, P2_PIECE)
              /\ OpenCols(rec.given) # {}
        /\ Terminal(rec.given) => rec.part = "terminal"
        /\ rec.part = "depth" <=> ~Terminal(rec.given) /\ rec.depth = rec.max_depth

\* one search scored an open board at the depth limit and met, at the depth
\* limit too, a board won by the opponent, which it did not score
HeuristicAtOpenLeaf ==
    /\ Searched
    /\ \E rec \in Records :
          /\ rec.part = "depth"
          /\ rec.depth = rec.max_depth
          /\ rec.value = score_board(rec.given, rec.player)
    /\ \E rec \in Records :
          /\ rec.depth = rec.max_depth
          /\ FourInLine(rec.given, SidePiece(1 - rec.player))
          /\ rec.part = "terminal"
          /\ rec.value = -WIN

\* C16: on the empty board minimax(board, 0, 1, -inf, +inf, True, side)
\* returns, for either reference side, value 0 and a column in [0, 7) that
\* is legal on the empty board.
EmptyBoardSearch ==
    (Searched /\ Root.given = init_board /\ Root.depth = 0 /\ Root.max_depth = 1) =>
        /\ ret.value = 0
        /\ ret.column \in 0..(COLUMNS - 1)
        /\ ret.column \in OpenCols(init_board)
        /\ Root.value = 0

\* the search of the empty board at max_depth 1 tried all seven columns,
\* found each of them worth 0 and returned the first
EmptyBoardSearched ==
    /\ Searched
    /\ Root.given = init_board
    /\ Root.max_depth = 1
    /\ Len(Root.scanned) = COLUMNS
    /\ \A k \in 1..COLUMNS : Root.scanned[k].new_score = 0
    /\ ret.value = 0
    /\ ret.column = 0

Pieces_on(b, piece) == Cardinality({cell \in Rows \X Cols : b[cell[1]][cell[2]] = piece})
Tally == wins + losses + draws
PassOfInnerLoop == turns' = turns + 1

\* C17: every game started by main's loop ends after at most ROWS x COLUMNS
\* = 42 moves, the side to move alternating strictly each turn from the
\* randomly chosen starter; when it ends exactly one of wins, losses, draws is
\* incremented by one (wins if P1 has four in a row, otherwise losses if P2
\* has, otherwise draws when the board is full), so wins + losses + draws
\* grows by exactly 1 per game and the outer loop stops after num_games games.
GameTally ==
    [][ /\ PassOfInnerLoop =>
              /\ turns' <= ROWS * COLUMNS
              /\ turn' = 1 - turn
              /\ ~game_over
              /\ game_over' <=> Terminal(board')
              /\ Tally' = IF game_over' THEN Tally + 1 ELSE Tally
              /\ wins' = IF FourInLine(board', P1_PIECE) THEN wins + 1 ELSE wins
              /\ losses' = IF ~FourInLine(board', P1_PIECE) /\ FourInLine(board', P2_PIECE)
                            THEN losses + 1 ELSE losses
              /\ draws' = IF ~FourInLine(board', P1_PIECE) /\ ~FourInLine(board', P2_PIECE)
                              /\ OpenCols(board') = {}
                           THEN draws + 1 ELSE draws
        /\ ~PassOfInnerLoop => <<wins', losses', draws'>> = <<wins, losses, draws>>
        /\ (pc = "outer" /\ pc' = "game") =>
              /\ Tally < num_games
              /\ turn' \in {0, 1}
              /\ board' = init_board
        /\ (pc = "game" /\ pc' = "outer") => game_over /\ Terminal(board)
        /\ (pc = "game" /\ ~game_over) => pc' = "game" /\ PassOfInnerLoop
        /\ pc' = "done" => Tally' = num_games
        /\ pc = "done" => pc' = "done"
      ]_vars

\* main has left the outer loop after a game P1 won and a game P1 lost
WonAndLost ==
    /\ pc = "done"
    /\ wins = 1
    /\ losses = 1
    /\ draws = 0
    /\ num_games = 2
    /\ FourInLine(board, P1_PIECE) \/ FourInLine(board, P2_PIECE)

\* C19: in every reachable state of main's game loop, minimax is called only
\* on a non-terminal board with max_depth >= 1, and the column it returns
\* satisfies lowest_row(board, col) > -1; hence the ERROR branch is never
\* reached, the column is never none, and every turn places exactly one
\* piece of the side to move.
DriverMovesLegal ==
    /\ pc # "raised"
    /\ errors = 0
    /\ turns > 0 =>
          /\ Searched
          /\ Root.depth = 0
          /\ Root.max_depth = ret.max_depth
          /\ Root.max_depth >= 1
          /\ ~Terminal(Root.given)
          /\ ret.column # None
          /\ ret.column \in Cols
          /\ lowest_row(Root.given, ret.column) > -1
          /\ ret.column \in OpenCols(Root.given)
          /\ ret.player = 1 - turn
          /\ board = Placed(Root.given, ret.column, SidePiece(ret.player))
          /\ Pieces_on(board, P1_PIECE) + Pieces_on(board, P2_PIECE) = turns

\* P1 searched five plies deep in the middle of a game and its piece was
\* placed in the column returned
DeepSearchPlaced ==
    /\ pc = "game"
    /\ turns > 4
    /\ Searched
    /\ ret.player = 0
    /\ ret.max_depth = P1_DEPTH
    /\ board = Placed(Root.given, ret.column, P1_PIECE)
    /\ errors = 0

\* C20: in every reachable state of a game in main, the numbers of P1_PIECE
\* and P2_PIECE cells differ by at most 1, at most one side has four in a
\* row and it is the side that moved last, and no move is ever made on a
\* board that is already terminal.
GameBoardInvariant ==
    /\ Pieces_on(board, P1_PIECE) - Pieces_on(board, P2_PIECE) \in {-1, 0, 1}
    /\ ~(FourInLine(board, P1_PIECE) /\ FourInLine(board, P2_PIECE))
    /\ \A side \in {0, 1} :
          FourInLine(board, SidePiece(side)) => turns > 0 /\ side = 1 - turn
    /\ (pc = "game" /\ ~game_over) => ~Terminal(board)
    /\ turns > 0 => ~Terminal(Root.given)
    /\ Terminal(board) => game_over

\* a game ended by the four in a row of P2, the side that moved last and
\* has one piece more than P1
LastMoverWon ==
    /\ pc = "game"
    /\ game_over
    /\ turn = 0
    /\ FourInLine(board, P2_PIECE)
    /\ ~FourInLine(board, P1_PIECE)
    /\ Pieces_on(board, P2_PIECE) = Pieces_on(board, P1_PIECE) + 1

FourScored(rec) ==
    /\ rec.part = "depth"
    /\ FourInLine(rec.given, SidePiece(rec.player))

\* C18: the +100 that score_window gives to a window of four own pieces makes
\* minimax choose the best win it can find: there are boards, sides and
\* depths for which the column or value returned by minimax depends on that
\* +100, so by the end of a run of main some search has returned a
\* score_board value that holds it.
BestWinByHeuristic == pc = "done" => fours > 0

\* what the searches do: no call of minimax scores a window of four own
\* pieces, and every win of the reference side is valued 1,000,000 by the
\* terminal check
FourNeverScored ==
    /\ fours = 0
    /\ \A rec \in Records :
          /\ ~FourScored(rec)
          /\ FourInLine(rec.given, SidePiece(rec.player)) =>
                rec.part = "terminal" /\ rec.value = WIN

\* main has left the outer loop; P1 won the last game by a search that found
\* the win at the first ply and valued it by the terminal check, and no
\* search of the run scored a window of four
WinFoundByTerminalCheck ==
    /\ pc = "done"
    /\ fours = 0
    /\ Searched
    /\ ret.player = 0
    /\ ret.max_depth = P1_DEPTH
    /\ ret.value = WIN
    /\ FourInLine(board, P1_PIECE)
    /\ \E rec \in Records :
          /\ rec.depth = 1
          /\ rec.given = board
          /\ rec.part = "terminal"

====
